---- MODULE Spec2Model ----
(***************************************************************************)
(* The postage-stamp purchase form (PostageStampAdvancedCreation.tsx) and  *)
(* the deposit action (DepositModal.tsx) of the dashboard.                 *)
(*                                                                         *)
(* Texts typed into the form are sequences of one-character strings, so    *)
(* that the three parsers the component applies to the same text           *)
(* (new BigNumber(..) in the validators, parseInt(..) and BigInt(..) in    *)
(* the render and in submit) are computed character by character.          *)
(***************************************************************************)
EXTENDS Integers, Sequences, FiniteSets, TLC

(***************************************************************************)
(* Bounds and inputs of the model.                                         *)
(***************************************************************************)
\* Slots for invocations of submit() that are in flight at the same time.
MaxInFlight == 2
\* Largest token amount handed to the deposit action.
MaxDeposit == 24

\* The texts typed into the depth field: empty, not a number, a fraction,
\* the values around both limits, and a depth written with an exponent.
DepthTexts ==
  { <<>>,
    <<"a", "b", "c">>,
    <<"2", "0", ".", "5">>,
    <<"1", "6">>,
    <<"1", "7">>,
    <<"2", "0">>,
    <<"2", "5", "5">>,
    <<"2", "5", "6">>,
    <<"1", "e", "2">> }

\* The texts typed into the amount field: empty, not a number, with a
\* decimal point, zero, negative, positive, and written with an exponent.
AmountTexts ==
  { <<>>,
    <<"a", "b", "c">>,
    <<"1", "0", ".", "5">>,
    <<"0">>,
    <<"-", "5">>,
    <<"1">>,
    <<"1", "0", "0">>,
    <<"1", "e", "3">>,
    <<"1", "e", "-", "1">> }

\* Values the external collaborators may answer with.
BatchIds == {"b1", "b2"}
TxHashes == {"0xaa", "0xbb"}
ErrorMessages == {"insufficient funds", "timeout"}
Labels == {"", "my batch"}
\* chainState of the Bee context: null until loaded, then a price per block.
NoChainState == "null"
ChainStates == {NoChainState, "24000"}

(***************************************************************************)
(* Characters and digits.                                                  *)
(***************************************************************************)
Digits == <<"0", "1", "2", "3", "4", "5", "6", "7", "8", "9">>

IsDigit(c) == \E i \in 1..10 : Digits[i] = c

DigitVal(c) == (CHOOSE i \in 1..10 : Digits[i] = c) - 1

AllDigits(t) == \A i \in 1..Len(t) : IsDigit(t[i])

\* Index of the first character of t that is in cs, 0 when there is none.
FirstIndex(t, cs) ==
  IF \E i \in 1..Len(t) : t[i] \in cs
  THEN CHOOSE i \in 1..Len(t) : t[i] \in cs /\ \A j \in 1..(i - 1) : t[j] \notin cs
  ELSE 0

\* The decimal value of a sequence of digit characters (0 for the empty one).
RECURSIVE DigitsValue(_)
DigitsValue(t) ==
  IF t = <<>> THEN 0
  ELSE 10 * DigitsValue(SubSeq(t, 1, Len(t) - 1)) + DigitVal(t[Len(t)])

RECURSIVE StripLeadingZeros(_)
StripLeadingZeros(t) ==
  IF t # <<>> /\ t[1] = "0" THEN StripLeadingZeros(Tail(t)) ELSE t

RECURSIVE StripTrailingZeros(_)
StripTrailingZeros(t) ==
  IF t # <<>> /\ t[Len(t)] = "0" THEN StripTrailingZeros(SubSeq(t, 1, Len(t) - 1)) ELSE t

RECURSIVE Pow10(_)
Pow10(k) == IF k <= 0 THEN 1 ELSE 10 * Pow10(k - 1)

(***************************************************************************)
(* new BigNumber(text), as the validators use it.  The text is a number    *)
(* when it is an optional "-", then digits with at most one decimal point  *)
(* (digits before it, after it, or both), then optionally "e" or "E", an   *)
(* optional sign and at least one digit: exponent notation is accepted.    *)
(* The value is kept as bignumber.js keeps it: sign s, coefficient digits  *)
(* c without leading or trailing zeros, and e the decimal exponent of the  *)
(* first digit of c.  Any other text among the texts of the model (none has  *)
(* a blank, a "+", a base prefix or the letters of Infinity) is NaN.       *)
(***************************************************************************)
NaNValue == [nan |-> TRUE, s |-> 1, c |-> <<>>, e |-> 0]

BigNumber(t) ==
  LET neg     == t # <<>> /\ t[1] = "-"
      body    == IF neg THEN Tail(t) ELSE t
      epos    == FirstIndex(body, {"e", "E"})
      mant    == IF epos = 0 THEN body ELSE SubSeq(body, 1, epos - 1)
      expo    == IF epos = 0 THEN <<>> ELSE SubSeq(body, epos + 1, Len(body))
      dot     == FirstIndex(mant, {"."})
      int     == IF dot = 0 THEN mant ELSE SubSeq(mant, 1, dot - 1)
      frac    == IF dot = 0 THEN <<>> ELSE SubSeq(mant, dot + 1, Len(mant))
      esigned == expo # <<>> /\ expo[1] \in {"+", "-"}
      edigits == IF esigned THEN Tail(expo) ELSE expo
      mantOk  == /\ AllDigits(int)
                 /\ AllDigits(frac)
                 /\ (int # <<>> \/ frac # <<>>)
      expOk   == epos = 0 \/ (edigits # <<>> /\ AllDigits(edigits))
      expVal  == IF epos = 0 THEN 0
                 ELSE IF esigned /\ expo[1] = "-" THEN 0 - DigitsValue(edigits)
                 ELSE DigitsValue(edigits)
      signif  == StripLeadingZeros(int \o frac)
      coeff   == StripTrailingZeros(signif)
  IN  IF ~(mantOk /\ expOk) THEN NaNValue
      ELSE IF coeff = <<>>
        THEN [nan |-> FALSE, s |-> IF neg THEN -1 ELSE 1, c |-> <<"0">>, e |-> 0]
      ELSE [nan |-> FALSE, s |-> IF neg THEN -1 ELSE 1, c |-> coeff,
            e |-> Len(signif) - 1 + expVal - Len(frac)]

isNaN(x) == x.nan

isZero(x) == ~x.nan /\ x.c = <<"0">>

isInteger(x) == ~x.nan /\ x.e >= Len(x.c) - 1

\* x compared with an integer n in 0..9999: -1, 0 or 1 (x is not NaN).
comparedTo(x, n) ==
  IF isZero(x) THEN (IF n = 0 THEN 0 ELSE -1)
  ELSE IF x.s = -1 THEN -1
  ELSE IF x.e >= 4 THEN 1
  ELSE IF x.e < 0 THEN (IF n = 0 THEN 1 ELSE -1)
  ELSE LET k     == x.e + 1
           have  == IF Len(x.c) < k THEN Len(x.c) ELSE k
           whole == DigitsValue(SubSeq(x.c, 1, have)) * Pow10(k - have)
       IN  IF whole < n THEN -1
           ELSE IF whole > n THEN 1
           ELSE IF Len(x.c) > k THEN 1
           ELSE 0

isLessThan(x, n) == ~x.nan /\ comparedTo(x, n) = -1

isGreaterThan(x, n) == ~x.nan /\ comparedTo(x, n) = 1

isLessThanOrEqualTo(x, n) == ~x.nan /\ comparedTo(x, n) \in {-1, 0}

(***************************************************************************)
(* parseInt(text, 10) and Number.parseInt(text): an optional sign, then    *)
(* the longest prefix of decimal digits; NaN when that prefix is empty.    *)
(* The two differ only on a "0x" prefix, which no text of the model has.   *)
(***************************************************************************)
RECURSIVE DigitPrefix(_)
DigitPrefix(t) ==
  IF t # <<>> /\ IsDigit(t[1]) THEN <<t[1]>> \o DigitPrefix(Tail(t)) ELSE <<>>

parseInt(t) ==
  LET signed == t # <<>> /\ t[1] \in {"+", "-"}
      body   == IF signed THEN Tail(t) ELSE t
      digits == DigitPrefix(body)
  IN  IF digits = <<>> THEN [nan |-> TRUE, val |-> 0]
      ELSE [nan |-> FALSE,
            val |-> IF signed /\ t[1] = "-" THEN 0 - DigitsValue(digits)
                    ELSE DigitsValue(digits)]

(***************************************************************************)
(* BigInt(text): the empty text is 0n; otherwise an optional sign followed *)
(* by decimal digits only; any other text throws a SyntaxError.            *)
(***************************************************************************)
BigInt(t) ==
  LET signed == t # <<>> /\ t[1] \in {"+", "-"}
      body   == IF signed THEN Tail(t) ELSE t
  IN  IF t = <<>> THEN [throws |-> FALSE, val |-> 0]
      ELSE IF body # <<>> /\ AllDigits(body)
        THEN [throws |-> FALSE,
              val |-> IF t[1] = "-" THEN 0 - DigitsValue(body) ELSE DigitsValue(body)]
      ELSE [throws |-> TRUE, val |-> 0]

\* bigint.toString(): the decimal digits, "-" first for a negative value.
RECURSIVE NatToString(_)
NatToString(n) ==
  IF n < 10 THEN <<Digits[n + 1]>>
  ELSE NatToString(n \div 10) \o <<Digits[(n % 10) + 1]>>

BigIntToString(n) == IF n < 0 THEN <<"-">> \o NatToString(0 - n) ELSE NatToString(n)

(***************************************************************************)
(* State.  depthField and amountField are the values of the two text       *)
(* boxes; the next seven variables are the useState cells of the form;     *)
(* beeDebugApi and chainState come from the contexts.                      *)
(***************************************************************************)
VARIABLES
  depthField,    \* the text in the depth text box
  amountField,   \* the text in the amount text box
  depthInput,    \* stored depth text
  amountInput,   \* stored amount text
  labelInput,
  immutable,
  depthError,
  amountError,
  submitting,
  beeDebugApi,   \* TRUE when the Settings context holds an API client
  chainState,    \* NoChainState, or the currentPrice of the chain state
  mounted,       \* FALSE once a render of the form has thrown
  view,          \* what the last render of the form put on the screen
  runs,          \* the invocations of submit(), by slot
  deposit,       \* the invocation of the deposit action
  out            \* the calls to collaborators made by the last step

vars == <<depthField, amountField, depthInput, amountInput, labelInput, immutable, depthError, amountError,
          submitting, beeDebugApi, chainState, mounted, view, runs, deposit, out>>

\* The text boxes and the state cells other than the submitting flag.
fields == <<depthField, amountField, depthInput, amountInput, labelInput,
            immutable, depthError, amountError>>

formState == <<fields, submitting>>

Zero == <<"0">>

(***************************************************************************)
(* The validators: the error to set and the text to store.                 *)
(***************************************************************************)
validateAmountInput(text) ==
  IF text = <<>> THEN [error |-> "Required field", stored |-> Zero]
  ELSE IF FirstIndex(text, {"."}) > 0
    THEN [error |-> "Amount must be an integer", stored |-> Zero]
  ELSE LET amount == BigNumber(text)
       IN  IF isNaN(amount)
             THEN [error |-> "Amount must contain only digits", stored |-> Zero]
           ELSE IF isLessThanOrEqualTo(amount, 0)
             THEN [error |-> "Amount must be greater than 0", stored |-> Zero]
           ELSE [error |-> "", stored |-> text]

validateDepthInput(text) ==
  IF text = <<>> THEN [error |-> "Required field", stored |-> Zero]
  ELSE LET depth == BigNumber(text)
       IN  IF ~isInteger(depth)
             THEN [error |-> "Depth must be an integer", stored |-> Zero]
           ELSE IF isLessThan(depth, 17)
             THEN [error |-> "Minimal depth is 17", stored |-> Zero]
           ELSE IF isGreaterThan(depth, 255)
             THEN [error |-> "Depth has to be at most 255", stored |-> Zero]
           ELSE [error |-> "", stored |-> text]

\* The validators over the texts of the model, computed once.
AmountValidation == [t \in AmountTexts |-> validateAmountInput(t)]

DepthValidation == [t \in DepthTexts |-> validateDepthInput(t)]

\* The texts the state cells can hold, and their conversions, computed once.
StoredTexts == DepthTexts \cup AmountTexts \cup {Zero}

parseIntOf == [t \in StoredTexts |-> parseInt(t)]

BigIntOf == [t \in StoredTexts |-> BigInt(t)]

(***************************************************************************)
(* The derived displays.  The utilities that turn a depth, an amount or a  *)
(* price into words are external: a computed display is the tuple of the   *)
(* numbers it is computed from.                                            *)
(***************************************************************************)
Dash == <<"-">>

getFileSize(depth) ==
  IF depth.nan \/ depth.val < 17 \/ depth.val > 255 THEN Dash
  ELSE <<"~", depth.val>>

getTtl(amount, cs) ==
  IF (~amount.nan /\ amount.val <= 0) \/ cs = NoChainState THEN Dash
  ELSE <<"ttl", amount, cs>>

getPrice(depth, amount) ==
  IF amount <= 0 \/ depth.nan \/ depth.val < 17 \/ depth.val > 255 THEN Dash
  ELSE <<"price", depth.val, amount, "xBZZ">>

\* Variants of the disabled expression, each with one part of it forgotten.
SubmitDisabledWithoutAmountCheck(dI, aI, dE, aE, sub) ==
  sub \/ dE # "" \/ aE # "" \/ dI = <<>>

SubmitDisabledWithoutErrors(dI, aI, dE, aE, sub) ==
  sub \/ dI = <<>> \/ aI = <<>>

SubmitDisabledWithoutSubmitting(dI, aI, dE, aE, sub) ==
  dE # "" \/ aE # "" \/ dI = <<>> \/ aI = <<>>

\* disabled={...} of the submit button.
SubmitDisabled(dI, aI, dE, aE, sub) ==
  sub \/ dE # "" \/ aE # "" \/ dI = <<>> \/ aI = <<>>

(***************************************************************************)
(* One render of the component.  BigInt(amountInput) is evaluated in the   *)
(* JSX when both fields are set and free of errors; when it throws, the    *)
(* render throws.                                                          *)
(***************************************************************************)
Render(dI, aI, dE, aE, sub, cs) ==
  LET priced == aE = "" /\ dE = "" /\ aI # <<>> /\ dI # <<>>
      threw  == priced /\ BigIntOf[aI].throws
  IN  [threw    |-> threw,
       fileSize |-> IF dE = "" /\ dI # <<>> THEN getFileSize(parseIntOf[dI]) ELSE Dash,
       ttl      |-> IF aE = "" /\ aI # <<>> THEN getTtl(parseIntOf[aI], cs) ELSE Dash,
       price    |-> IF priced /\ ~threw
                      THEN getPrice(parseIntOf[dI], BigIntOf[aI].val) ELSE Dash,
       disabled |-> SubmitDisabled(dI, aI, dE, aE, sub)]

\* Nothing of the form is on the screen.
NoView == [threw |-> TRUE, fileSize |-> <<>>, ttl |-> <<>>, price |-> <<>>,
           disabled |-> TRUE]

\* React renders the component again after a change of state or context; a
\* render that throws takes the form off the screen, and a form that is off
\* the screen is not rendered again.
Rerender(dI, aI, dE, aE, sub, cs) ==
  LET r == Render(dI, aI, dE, aE, sub, cs)
  IN  IF ~mounted \/ r.threw
        THEN mounted' = FALSE /\ view' = NoView
      ELSE mounted' = TRUE /\ view' = r

(***************************************************************************)
(* An invocation of submit(): where it is suspended, and what it has done  *)
(* so far.                                                                 *)
(***************************************************************************)
FreeRun == [pc |-> "free", batchId |-> "", waitedFor |-> "", created |-> 0,
            waited |-> 0, refreshed |-> 0, finished |-> 0, caught |-> "",
            snack |-> ""]

Awaiting == {"createPostageBatch", "waitUntilStampExists", "refresh"}

InFlight == {i \in 1..MaxInFlight : runs[i].pc \in Awaiting}

Call(op, args) == [op |-> op, args |-> args]

\* A catch block that shows a notification without the exception's message.
CaughtWithoutMessage(run, message) ==
  [run EXCEPT !.pc = "done", !.caught = message, !.snack = "Error: undefined"]

\* The catch block of submit(): log the exception, show the notification.
Caught(run, message) ==
  [run EXCEPT !.pc = "done", !.caught = message, !.snack = "Error: " \o message]

CatchCalls(message) ==
  <<Call("console.error", <<message>>),
    Call("enqueueSnackbar", <<"Error: " \o message, "error">>)>>

\* setSubmitting(value), and the render that follows it.  React drops an
\* update of a component that is no longer on the screen.
setSubmitting(value) ==
  IF mounted
    THEN /\ submitting' = value
         /\ Rerender(depthInput, amountInput, depthError, amountError, value, chainState)
  ELSE UNCHANGED <<submitting, mounted, view>>

(***************************************************************************)
(* The handlers of the form.                                               *)
(***************************************************************************)
onChangeLabel(text) ==
  /\ mounted
  /\ labelInput' = text
  /\ Rerender(depthInput, amountInput, depthError, amountError, submitting, chainState)
  /\ out' = <<>>
  /\ UNCHANGED <<depthField, amountField, depthInput, amountInput, immutable,
                 depthError, amountError, submitting, beeDebugApi, chainState,
                 runs, deposit>>

onChangeImmutable(value) ==
  /\ mounted
  /\ immutable' = (value = "Yes")
  /\ Rerender(depthInput, amountInput, depthError, amountError, submitting, chainState)
  /\ out' = <<>>
  /\ UNCHANGED <<depthField, amountField, depthInput, amountInput, labelInput,
                 depthError, amountError, submitting, beeDebugApi, chainState,
                 runs, deposit>>

onChangeDepth(text) ==
  /\ mounted
  /\ depthField' = text
  /\ depthError' = DepthValidation[text].error
  /\ depthInput' = DepthValidation[text].stored
  /\ Rerender(depthInput', amountInput, depthError', amountError, submitting, chainState)
  /\ out' = <<>>
  /\ UNCHANGED <<amountField, amountInput, labelInput, immutable, amountError,
                 submitting, beeDebugApi, chainState, runs, deposit>>

onChangeAmount(text) ==
  /\ mounted
  /\ amountField' = text
  /\ amountError' = AmountValidation[text].error
  /\ amountInput' = AmountValidation[text].stored
  /\ Rerender(depthInput, amountInput', depthError, amountError', submitting, chainState)
  /\ out' = <<>>
  /\ UNCHANGED <<depthField, depthInput, labelInput, immutable, depthError,
                 submitting, beeDebugApi, chainState, runs, deposit>>

\* The Bee context publishes another chain state.
chainStateChanges(cs) ==
  /\ chainState' = cs
  /\ Rerender(depthInput, amountInput, depthError, amountError, submitting, cs)
  /\ out' = <<>>
  /\ UNCHANGED <<formState, beeDebugApi, runs, deposit>>

(***************************************************************************)
(* A click on "Buy New Stamp": the button takes no click while the last    *)
(* render disabled it.  submit() runs up to its first await.               *)
(***************************************************************************)
submit ==
  /\ mounted
  /\ ~view.disabled
  /\ IF depthInput = <<>> \/ amountInput = <<>> \/ ~beeDebugApi
       THEN /\ out' = <<>>
            /\ UNCHANGED <<submitting, mounted, view, runs>>
     ELSE \E i \in 1..MaxInFlight :
       /\ i \notin InFlight
       /\ \A j \in 1..(i - 1) : j \in InFlight
       /\ LET amount  == BigIntOf[amountInput]
              depth   == parseIntOf[depthInput]
              options == [waitForUsable |-> FALSE,
                          label |-> IF labelInput = "" THEN "undefined" ELSE labelInput,
                          immutableFlag |-> immutable]
          IN  IF amount.throws
                THEN /\ submitting' = FALSE
                     /\ Rerender(depthInput, amountInput, depthError, amountError,
                                 FALSE, chainState)
                     /\ runs' = [runs EXCEPT ![i] =
                                   Caught(FreeRun, "Cannot convert to a BigInt")]
                     /\ out' = CatchCalls("Cannot convert to a BigInt")
              ELSE /\ setSubmitting(TRUE)
                   /\ runs' = [runs EXCEPT ![i] =
                                 [FreeRun EXCEPT !.pc = "createPostageBatch",
                                                 !.created = 1]]
                   /\ out' = <<Call("createPostageBatch",
                                    <<BigIntToString(amount.val), depth, options>>)>>
  /\ UNCHANGED <<fields, beeDebugApi, chainState, deposit>>

(***************************************************************************)
(* The continuations of submit().  A promise that settles resumes the      *)
(* invocation, which runs to its next await or to its end.                 *)
(***************************************************************************)
\* createPostageBatch resolved with a batch id.
submitAfterCreate(i, id) ==
  /\ runs[i].pc = "createPostageBatch"
  /\ runs' = [runs EXCEPT ![i].pc = "waitUntilStampExists", ![i].batchId = id,
                          ![i].waitedFor = id, ![i].waited = @ + 1]
  /\ out' = <<Call("waitUntilStampExists", <<id>>)>>
  /\ UNCHANGED <<formState, beeDebugApi, chainState, mounted, view, deposit>>

\* waitUntilStampExists resolved.
submitAfterWait(i) ==
  /\ runs[i].pc = "waitUntilStampExists"
  /\ runs' = [runs EXCEPT ![i].pc = "refresh", ![i].refreshed = @ + 1]
  /\ out' = <<Call("refresh", <<>>)>>
  /\ UNCHANGED <<formState, beeDebugApi, chainState, mounted, view, deposit>>

\* refresh resolved: onFinished(), then setSubmitting(false).
submitAfterRefresh(i) ==
  /\ runs[i].pc = "refresh"
  /\ runs' = [runs EXCEPT ![i].pc = "done", ![i].finished = @ + 1]
  /\ out' = <<Call("onFinished", <<>>)>>
  /\ setSubmitting(FALSE)
  /\ UNCHANGED <<fields, beeDebugApi, chainState, deposit>>

\* The call the invocation awaits rejected: the catch block, then
\* setSubmitting(false).
submitCatch(i, message) ==
  /\ runs[i].pc \in Awaiting
  /\ runs' = [runs EXCEPT ![i] = Caught(@, message)]
  /\ out' = CatchCalls(message)
  /\ setSubmitting(FALSE)
  /\ UNCHANGED <<fields, beeDebugApi, chainState, deposit>>

(***************************************************************************)
(* The action of the deposit modal.                                        *)
(***************************************************************************)
IdleDeposit == [pc |-> "idle", amount |-> 0, sent |-> <<>>, called |-> 0,
                transactionHash |-> "", refreshed |-> 0, returned |-> "",
                thrown |-> ""]

\* action(amount), up to its await.
action(amount) ==
  /\ deposit.pc # "depositTokens"
  /\ IF ~beeDebugApi
       THEN /\ deposit' = [IdleDeposit EXCEPT !.pc = "threw", !.amount = amount,
                                              !.thrown = "Bee Debug URL is not valid"]
            /\ out' = <<>>
     ELSE /\ deposit' = [IdleDeposit EXCEPT !.pc = "depositTokens", !.amount = amount,
                                            !.sent = BigIntToString(amount),
                                            !.called = 1]
          /\ out' = <<Call("depositTokens", <<BigIntToString(amount)>>)>>
  /\ UNCHANGED <<formState, beeDebugApi, chainState, mounted, view, runs>>

\* depositTokens resolved with a transaction hash.
actionAfterDeposit(hash) ==
  /\ deposit.pc = "depositTokens"
  /\ deposit' = [deposit EXCEPT !.pc = "returned", !.transactionHash = hash,
                                !.refreshed = @ + 1, !.returned = hash]
  /\ out' = <<Call("refresh", <<>>)>>
  /\ UNCHANGED <<formState, beeDebugApi, chainState, mounted, view, runs>>

\* A deposit action that refreshes the balances in a finally block.
actionRejectedThenRefresh(message) ==
  /\ deposit.pc = "depositTokens"
  /\ deposit' = [deposit EXCEPT !.pc = "threw", !.thrown = message,
                                !.refreshed = @ + 1]
  /\ out' = <<Call("refresh", <<>>)>>
  /\ UNCHANGED <<formState, beeDebugApi, chainState, mounted, view, runs>>

\* depositTokens rejected: the action rejects with the same error.
actionRejected(message) ==
  /\ deposit.pc = "depositTokens"
  /\ deposit' = [deposit EXCEPT !.pc = "threw", !.thrown = message]
  /\ out' = <<>>
  /\ UNCHANGED <<formState, beeDebugApi, chainState, mounted, view, runs>>

(***************************************************************************)
(* The specifications.                                                     *)
(***************************************************************************)
Init ==
  /\ depthField = <<>>
  /\ amountField = <<>>
  /\ depthInput = <<>>
  /\ amountInput = <<>>
  /\ labelInput = ""
  /\ immutable = FALSE
  /\ depthError = ""
  /\ amountError = ""
  /\ submitting = FALSE
  /\ beeDebugApi \in BOOLEAN
  /\ chainState \in ChainStates
  /\ mounted = TRUE
  /\ view = Render(<<>>, <<>>, "", "", FALSE, chainState)
  /\ runs = [i \in 1..MaxInFlight |-> FreeRun]
  /\ deposit = IdleDeposit
  /\ out = <<>>

Settle ==
  \/ \E i \in 1..MaxInFlight, id \in BatchIds : submitAfterCreate(i, id)
  \/ \E i \in 1..MaxInFlight : submitAfterWait(i)
  \/ \E i \in 1..MaxInFlight : submitAfterRefresh(i)
  \/ \E i \in 1..MaxInFlight, m \in ErrorMessages : submitCatch(i, m)

Next ==
  \/ \E text \in Labels : onChangeLabel(text)
  \/ \E value \in {"Yes", "No"} : onChangeImmutable(value)
  \/ \E text \in DepthTexts : onChangeDepth(text)
  \/ \E text \in AmountTexts : onChangeAmount(text)
  \/ \E cs \in ChainStates : chainStateChanges(cs)
  \/ submit
  \/ Settle

\* The postage-stamp form.
Spec == Init /\ [][Next]_vars

\* The form, with every call to a collaborator settling in the end.
FairSpec == Spec /\ WF_vars(Settle)

NextDeposit ==
  \/ \E amount \in 0..MaxDeposit : action(amount)
  \/ \E hash \in TxHashes : actionAfterDeposit(hash)
  \/ \E m \in ErrorMessages : actionRejected(m)

\* The deposit action.
SpecDeposit == Init /\ [][NextDeposit]_vars

(***************************************************************************)
(* The claims.  A form whose render has thrown is off the screen: it has   *)
(* no submit control and no displays, and React keeps no state for it, so  *)
(* what is said of the control, the displays and the submitting flag is    *)
(* said of a form that is mounted.                                         *)
(***************************************************************************)

\* C1: in every reachable state of the form, the submit control is disabled
\* if and only if the submitting flag is true, or depthError is non-empty,
\* or amountError is non-empty, or the stored depth is empty, or the stored
\* amount is empty.
C1_SubmitDisabledIff ==
  mounted =>
    (view.disabled <=>
       (submitting \/ depthError # "" \/ amountError # ""
          \/ depthInput = <<>> \/ amountInput = <<>>))

\* The control is enabled again after a submission has come to its end.
C1_Witness ==
  /\ mounted
  /\ ~view.disabled
  /\ \E i \in 1..MaxInFlight : runs[i].pc = "done"

\* C2: whenever createPostageBatch is invoked, depthError and amountError
\* are empty and the stored depth and the stored amount are non-empty: no
\* submission while a validation error is present or a field is empty.
C2_NoSubmissionWhileInvalid ==
  \A k \in 1..Len(out) :
    out[k].op = "createPostageBatch" =>
      /\ depthError = ""
      /\ amountError = ""
      /\ depthInput # <<>>
      /\ amountInput # <<>>

\* createPostageBatch is invoked, with the depth 255 typed into the form.
C2_Witness ==
  /\ depthField = <<"2", "5", "5">>
  /\ \E k \in 1..Len(out) : out[k].op = "createPostageBatch"

\* C3: a successful submission calls createPostageBatch exactly once, with
\* the amount and the depth parsed as integers from the validated inputs
\* (depth in 17..255, amount > 0), then waits for the returned batch id,
\* then refreshes the stamp list once, then calls onFinished once, each
\* step after the previous one completed, and ends with the submitting
\* flag false.
C3_SuccessfulSubmission ==
  /\ \A k \in 1..Len(out) :
       out[k].op = "createPostageBatch" =>
         /\ ~out[k].args[2].nan
         /\ out[k].args[2].val \in 17..255
         /\ ~BigInt(out[k].args[1]).throws
         /\ BigInt(out[k].args[1]).val > 0
         /\ Cardinality({i \in 1..MaxInFlight : runs[i].pc = "createPostageBatch"}) = 1
  /\ \A i \in 1..MaxInFlight :
       /\ runs[i].waited <= runs[i].created
       /\ runs[i].refreshed <= runs[i].waited
       /\ runs[i].finished <= runs[i].refreshed
       /\ (runs[i].pc = "done" /\ runs[i].caught = "") =>
            /\ runs[i].created = 1
            /\ runs[i].waited = 1
            /\ runs[i].batchId \in BatchIds
            /\ runs[i].waitedFor = runs[i].batchId
            /\ runs[i].refreshed = 1
            /\ runs[i].finished = 1
  /\ (mounted /\ out = <<Call("onFinished", <<>>)>>) => ~submitting

\* C4: when the call that a submission awaits throws, the notification
\* carries the exception's message and onFinished is not invoked; when it
\* is createPostageBatch that throws, the stamp list is not refreshed
\* either; and the submitting flag is false when the submission ends.
C4_ApiThrows ==
  /\ \A i \in 1..MaxInFlight :
       (runs[i].pc = "done" /\ runs[i].caught # "") =>
         /\ runs[i].snack = "Error: " \o runs[i].caught
         /\ runs[i].finished = 0
         /\ (runs[i].waited = 0 => runs[i].refreshed = 0)
  /\ (Len(out) = 2 /\ out[1].op = "console.error") =>
       /\ out[2] = Call("enqueueSnackbar", <<"Error: " \o out[1].args[1], "error">>)
       /\ (mounted => ~submitting)

\* createPostageBatch has just thrown "timeout" and the form is idle again.
C4_Witness ==
  /\ mounted
  /\ ~submitting
  /\ Len(out) = 2
  /\ runs[1].pc = "done"
  /\ runs[1].caught = "timeout"
  /\ runs[1].waited = 0

\* C5: at most one submission is in flight per form, whatever the
\* interleaving of edits, clicks and completions, and the submitting flag
\* is not cleared while a submission is in flight.
C5_OneSubmissionInFlight ==
  /\ Cardinality(InFlight) <= 1
  /\ InFlight # {} => submitting

\* A submission waits for the refresh while the depth field has been
\* edited into an error.
C5_Witness ==
  /\ runs[1].pc = "refresh"
  /\ depthError # ""
  /\ submitting

\* C6: a form that entered the submitting state returns to idle in the
\* end, given that every call to a collaborator settles.
C6_ReturnsToIdle == submitting ~> (mounted /\ ~submitting)

\* C7: the deposit action calls depositTokens exactly once with the amount
\* as a decimal string, refreshes the balances exactly once and only after
\* depositTokens resolved, and returns the transaction hash; without an API
\* client it throws the configuration error and makes no call and no
\* refresh; when depositTokens rejects it fails without a refresh.
C7_DepositAction ==
  /\ ~beeDebugApi => deposit.pc \in {"idle", "threw"}
  /\ deposit.pc = "depositTokens" =>
       /\ deposit.called = 1
       /\ deposit.refreshed = 0
       /\ out = <<Call("depositTokens", <<deposit.sent>>)>>
       /\ AllDigits(deposit.sent)
       /\ BigInt(deposit.sent) = [throws |-> FALSE, val |-> deposit.amount]
  /\ deposit.pc = "returned" =>
       /\ deposit.called = 1
       /\ deposit.refreshed = 1
       /\ out = <<Call("refresh", <<>>)>>
       /\ deposit.transactionHash \in TxHashes
       /\ deposit.returned = deposit.transactionHash
  /\ deposit.pc = "threw" =>
       /\ deposit.refreshed = 0
       /\ out = <<>>
       /\ IF beeDebugApi
            THEN deposit.called = 1 /\ deposit.thrown \in ErrorMessages
          ELSE deposit.called = 0 /\ deposit.thrown = "Bee Debug URL is not valid"

\* The deposit of 12 tokens has returned its transaction hash.
C7_Witness ==
  /\ deposit.pc = "returned"
  /\ deposit.amount = 12
  /\ deposit.sent = <<"1", "2">>

\* C8, for the Indicative Price display: it shows "-" whenever the depth
\* or the amount typed is invalid or empty, and a computed value whenever
\* both are valid.
C8_PriceFollowsValidity ==
  LET depth       == BigNumber(depthField)
      amount      == BigNumber(amountField)
      depthValid  == /\ isInteger(depth)
                     /\ ~isLessThan(depth, 17)
                     /\ ~isGreaterThan(depth, 255)
      amountValid == /\ FirstIndex(amountField, {"."}) = 0
                     /\ isInteger(amount)
                     /\ ~isLessThanOrEqualTo(amount, 0)
  IN  mounted =>
        IF depthValid /\ amountValid THEN view.price # Dash ELSE view.price = Dash

\* C9: after an amount edit, a text that is empty, not integer-formatted or
\* not above 0 sets amountError and stores "0"; a text that denotes a
\* positive integer clears amountError and is stored as typed, and the
\* stored text converts to that same integer for the price and for submit.
C9_AmountValidation ==
  LET amount   == BigNumber(amountField)
      positive == /\ FirstIndex(amountField, {"."}) = 0
                  /\ isInteger(amount)
                  /\ ~isLessThanOrEqualTo(amount, 0)
  IN  (amountField # <<>> \/ amountError # "") =>
        IF positive
          THEN /\ amountError = ""
               /\ amountInput = amountField
               /\ ~BigInt(amountInput).throws
               /\ BigInt(amountInput).val =
                    DigitsValue(amount.c) * Pow10(amount.e - Len(amount.c) + 1)
        ELSE amountError # "" /\ amountInput = Zero

\* C10: after a depth edit, a text that is empty, not an integer, below 17
\* or above 255 sets the corresponding depthError and stores "0"; a text
\* that denotes an integer in 17..255 clears depthError and is stored as
\* typed, and that same integer is the depth of the file size shown and the
\* depth passed to createPostageBatch.
C10_DepthValidation ==
  LET depth == BigNumber(depthField)
      value == DigitsValue(depth.c) * Pow10(depth.e - Len(depth.c) + 1)
  IN  (depthField # <<>> \/ depthError # "") =>
        IF depthField = <<>>
          THEN depthError = "Required field" /\ depthInput = Zero
        ELSE IF ~isInteger(depth)
          THEN depthError = "Depth must be an integer" /\ depthInput = Zero
        ELSE IF isLessThan(depth, 17)
          THEN depthError = "Minimal depth is 17" /\ depthInput = Zero
        ELSE IF isGreaterThan(depth, 255)
          THEN depthError = "Depth has to be at most 255" /\ depthInput = Zero
        ELSE /\ depthError = ""
             /\ depthInput = depthField
             /\ mounted => view.fileSize = <<"~", value>>
             /\ \A k \in 1..Len(out) :
                  out[k].op = "createPostageBatch" =>
                    out[k].args[2] = [nan |-> FALSE, val |-> value]

====
